---- MODULE Spec2Model ----
(***************************************************************************)
(* sqlm: sqlhooks-based instrumentation of database/sql statements.        *)
(* The hooks (Before / After / OnError) of QHooks, the QMonitor counters   *)
(* they feed, the spans they start and end, and the text functions used to *)
(* classify and normalise a statement.                                     *)
(*                                                                         *)
(* Statement texts are TLA+ strings; a character is a string of length 1.  *)
(***************************************************************************)
EXTENDS Integers, Sequences, FiniteSets, TLC

(***************************************************************************)
(* Bounds of the model.                                                    *)
(***************************************************************************)
\* longest generated tail appended to a statement head
MaxTail == 4
\* number of value tuples of the generated bulk inserts, 1..MaxTuples
MaxTuples == 3
\* longest generated placeholder list, 1..MaxPlaceholders
MaxPlaceholders == 3
\* number of concurrent statement executions
NumProcs == 2
\* longest generated numeric ID list, 1..MaxIds
MaxIds == 2
\* number of changes of the pool statistics
MaxPoolChanges == 2

(***************************************************************************)
(* strings: HasPrefix, ToLower (ASCII letters)                             *)
(***************************************************************************)
Char(s, i) == SubSeq(s, i, i)

Rest(s, i) == SubSeq(s, i, Len(s))

HasPrefix(s, prefix) ==
    /\ Len(s) >= Len(prefix)
    /\ SubSeq(s, 1, Len(prefix)) = prefix

ToLowerChar(c) ==
    CASE c = "A" -> "a" [] c = "B" -> "b" [] c = "C" -> "c" [] c = "D" -> "d"
      [] c = "E" -> "e" [] c = "F" -> "f" [] c = "G" -> "g" [] c = "H" -> "h"
      [] c = "I" -> "i" [] c = "J" -> "j" [] c = "K" -> "k" [] c = "L" -> "l"
      [] c = "M" -> "m" [] c = "N" -> "n" [] c = "O" -> "o" [] c = "P" -> "p"
      [] c = "Q" -> "q" [] c = "R" -> "r" [] c = "S" -> "s" [] c = "T" -> "t"
      [] c = "U" -> "u" [] c = "V" -> "v" [] c = "W" -> "w" [] c = "X" -> "x"
      [] c = "Y" -> "y" [] c = "Z" -> "z" [] OTHER -> c

RECURSIVE ToLower(_)
ToLower(s) ==
    IF s = "" THEN "" ELSE ToLowerChar(Char(s, 1)) \o ToLower(Rest(s, 2))

IsDigit(c) == c \in {"0", "1", "2", "3", "4", "5", "6", "7", "8", "9"}

RECURSIVE HasNewline(_)
HasNewline(s) ==
    IF s = "" THEN FALSE
    ELSE IF Char(s, 1) = "\n" THEN TRUE ELSE HasNewline(Rest(s, 2))

(***************************************************************************)
(* The three regular expressions. For a pattern re, the operator reMatch   *)
(* gives the index of the last character of the match of re that starts at *)
(* i, and i - 1 when re does not match at i. None matches the empty        *)
(* string.                                                                 *)
(***************************************************************************)

\* (\?,?)+ : a pattern that takes the placeholders themselves, each with
\* the comma after it
RECURSIVE placeholderRunMatch(_, _)
placeholderRunMatch(s, i) ==
    IF i <= Len(s) /\ Char(s, i) = "?"
    THEN IF i + 1 <= Len(s) /\ Char(s, i + 1) = ","
         THEN placeholderRunMatch(s, i + 2)
         ELSE placeholderRunMatch(s, i + 1)
    ELSE i - 1

\* (,\?)+ : the longest run of ",?" pairs starting at i
RECURSIVE queryCleanupMatch(_, _)
queryCleanupMatch(s, i) ==
    IF i + 1 <= Len(s) /\ Char(s, i) = "," /\ Char(s, i + 1) = "?"
    THEN queryCleanupMatch(s, i + 2)
    ELSE i - 1

\* (?i)values \(.*$ : "values (" in any letter case, then anything but a
\* line break up to the end of the text
insertQueryCleanupMatch(s, i) ==
    IF /\ i + 7 <= Len(s)
       /\ ToLower(SubSeq(s, i, i + 7)) = "values ("
       /\ ~HasNewline(Rest(s, i + 8))
    THEN Len(s)
    ELSE i - 1

\* \d+ : a run of digits that leaves the commas between them in place
RECURSIVE SanitizeMatchDigitsOnly(_, _)
SanitizeMatchDigitsOnly(s, i) ==
    IF i <= Len(s) /\ IsDigit(Char(s, i))
    THEN SanitizeMatchDigitsOnly(s, i + 1)
    ELSE i - 1

\* (\d(,?))+ : the longest run of digits, each optionally followed by a comma
RECURSIVE SanitizeMatch(_, _)
SanitizeMatch(s, i) ==
    IF i <= Len(s) /\ IsDigit(Char(s, i))
    THEN IF i + 1 <= Len(s) /\ Char(s, i + 1) = ","
         THEN SanitizeMatch(s, i + 2)
         ELSE SanitizeMatch(s, i + 1)
    ELSE i - 1

MatchEnd(re, s, i) ==
    CASE re = "queryCleanup" -> queryCleanupMatch(s, i)
      [] re = "insertQueryCleanup" -> insertQueryCleanupMatch(s, i)
      [] re = "SanitizeQuery" -> SanitizeMatch(s, i)

\* regexp.ReplaceAllString: the leftmost match is replaced, the scan
\* resumes after it
RECURSIVE ReplaceAllFrom(_, _, _, _)
ReplaceAllFrom(re, s, i, repl) ==
    IF i > Len(s) THEN ""
    ELSE LET e == MatchEnd(re, s, i)
         IN  IF e >= i
             THEN repl \o ReplaceAllFrom(re, s, e + 1, repl)
             ELSE Char(s, i) \o ReplaceAllFrom(re, s, i + 1, repl)

\* queryCleanup.ReplaceAllString(query, "")
queryCleanup(sqlText) == ReplaceAllFrom("queryCleanup", sqlText, 1, "")

\* insertQueryCleanup.ReplaceAllString(query, "VALUES (? ?)")
insertQueryCleanup(sqlText) ==
    ReplaceAllFrom("insertQueryCleanup", sqlText, 1, "VALUES (? ?)")

SanitizeQuery(sqlText) == ReplaceAllFrom("SanitizeQuery", sqlText, 1, "")

(***************************************************************************)
(* constants of the package                                                *)
(***************************************************************************)
SqlType == "sqlType"
SqlMaster == "master"
SqlSlave == "slave"

\* context keys: the Go type of a key is part of its identity
KeySqlType == "string:sqlType"
KeyMaster == "string:master"
Begin == "Key:begin"
QuerySpan == "Key:querySpan"
CtxKeys == {KeySqlType, KeyMaster, Begin, QuerySpan}

\* the nil interface value, and nil error
Nil == "<nil>"
\* driver.ErrSkip
ErrSkip == "driver.ErrSkip"

(***************************************************************************)
(* QHooks: the two mysql.Config it holds. ro may be a nil pointer.         *)
(***************************************************************************)
MysqlConfig(addr, dbname, user) ==
    [isNil |-> FALSE, Addr |-> addr, DBName |-> dbname, User |-> user]

NilConfig == [isNil |-> TRUE, Addr |-> "", DBName |-> "", User |-> ""]

QHooks(rw, ro) == [rw |-> rw, ro |-> ro]

\* getDBHostName as in the variant of QHooks that holds plain strings:
\* a select takes the read-only value, empty or not
getDBHostNameNoFallback(h, isSelectQuery) ==
    IF isSelectQuery THEN h.ro.Addr ELSE h.rw.Addr

getDBHostName(h, isSelectQuery) ==
    IF isSelectQuery /\ h.ro.Addr # "" THEN h.ro.Addr ELSE h.rw.Addr

getDatabaseName(h, isSelectQuery) ==
    IF isSelectQuery /\ h.ro.DBName # "" THEN h.ro.DBName ELSE h.rw.DBName

getDBUserName(h, isSelectQuery) ==
    IF isSelectQuery /\ h.ro.User # "" THEN h.ro.User ELSE h.rw.User

\* h.ro.Addr is evaluated only for a select (&& short-circuits); with a nil
\* ro it is a nil pointer dereference
RoutingPanics(h, isSelectQuery) == isSelectQuery /\ h.ro.isNil

(***************************************************************************)
(* Before: the switch on the statement's leading keyword                   *)
(***************************************************************************)
\* a switch that compares the keyword without lowering the text
BeforeSwitchCaseSensitive(sqlText) ==
    LET cleanQuery == queryCleanup(sqlText)
    IN  CASE HasPrefix(sqlText, "select") ->
               [spanName |-> "SQL: SELECT", isSelectQuery |-> TRUE,
                cleanQuery |-> cleanQuery]
          [] HasPrefix(sqlText, "update") ->
               [spanName |-> "SQL: UPDATE", isSelectQuery |-> FALSE,
                cleanQuery |-> cleanQuery]
          [] HasPrefix(sqlText, "delete") ->
               [spanName |-> "SQL: DELETE", isSelectQuery |-> FALSE,
                cleanQuery |-> cleanQuery]
          [] HasPrefix(sqlText, "create") ->
               [spanName |-> "SQL: CREATE", isSelectQuery |-> FALSE,
                cleanQuery |-> cleanQuery]
          [] OTHER ->
               [spanName |-> "SQL: OTHER", isSelectQuery |-> FALSE,
                cleanQuery |-> insertQueryCleanup(sqlText)]

BeforeSwitch(sqlText) ==
    LET cleanQuery == queryCleanup(sqlText)
        lower == ToLower(sqlText)
    IN  CASE HasPrefix(lower, "select") ->
               [spanName |-> "SQL: SELECT", isSelectQuery |-> TRUE,
                cleanQuery |-> cleanQuery]
          [] HasPrefix(lower, "update") ->
               [spanName |-> "SQL: UPDATE", isSelectQuery |-> FALSE,
                cleanQuery |-> cleanQuery]
          [] HasPrefix(lower, "delete") ->
               [spanName |-> "SQL: DELETE", isSelectQuery |-> FALSE,
                cleanQuery |-> cleanQuery]
          [] HasPrefix(lower, "create") ->
               [spanName |-> "SQL: CREATE", isSelectQuery |-> FALSE,
                cleanQuery |-> cleanQuery]
          [] OTHER ->
               [spanName |-> "SQL: OTHER", isSelectQuery |-> FALSE,
                cleanQuery |-> insertQueryCleanup(sqlText)]

(***************************************************************************)
(* spans                                                                   *)
(***************************************************************************)
NoSpan ==
    [started |-> FALSE, name |-> "", service |-> "", host |-> "",
     database |-> "", user |-> "", query |-> "", queryTime |-> FALSE,
     error |-> FALSE, errorText |-> "", ended |-> 0]

\* defaultTracer.Start(ctx, spanName, ...)
StartSpan(spanName) == [NoSpan EXCEPT !.started = TRUE, !.name = spanName]

\* the span of Before after span.SetAttributes; sw is the switch's outcome
BeforeSpan(h, sw) ==
    [StartSpan(sw.spanName) EXCEPT
        !.service = "mysql",
        !.host = getDBHostName(h, sw.isSelectQuery),
        !.database = getDatabaseName(h, sw.isSelectQuery),
        !.user = getDBUserName(h, sw.isSelectQuery),
        !.query = sw.cleanQuery]

\* span.End()
EndSpan(span) == [span EXCEPT !.ended = @ + 1]

(***************************************************************************)
(* After and OnError: the metric label and statement class they compute    *)
(***************************************************************************)
AfterQuery(sqlText) ==
    LET q == queryCleanup(sqlText)
    IN  IF HasPrefix(ToLower(q), "insert") THEN insertQueryCleanup(q) ELSE q

\* a resolution that ignores the context
AfterSqlTypeMasterOnly(c) == SqlMaster

AfterSqlType(c) == IF c[KeySqlType] # Nil THEN c[KeySqlType] ELSE SqlMaster

OnErrorQuery(sqlText) == queryCleanup(sqlText)

\* the query label of WithLabelValues(SanitizeQuery(name), sqlType)
QueryLabel(name) == SanitizeQuery(name)

\* the query label After counts a statement under
AfterLabel(sqlText) == QueryLabel(AfterQuery(sqlText))

\* the query label OnError counts a statement under
OnErrorLabel(sqlText) == QueryLabel(OnErrorQuery(sqlText))

\* the lookup key is the local variable sqlType, which holds "master"
OnErrorSqlType(c) == IF c[KeyMaster] # Nil THEN c[KeyMaster] ELSE SqlMaster

\* a type assertion that yields the zero time.Time for a missing value
BeginAssertTolerated(c) == FALSE

\* begin := ctx.Value(Begin).(time.Time) panics when the value is missing
BeginAssertPanics(c) == c[Begin] = Nil

\* a check that lets the skip sentinel through as a genuine error
IsSkipNilOnly(e) == e = Nil

IsSkip(e) == e = ErrSkip \/ e = Nil

\* an OnError that swallows the error
OnErrorReturnNil(e) == Nil

OnErrorReturn(e) == e

\* err.Error()
ErrorText(e) ==
    CASE e = ErrSkip -> "driver: skip fast-path; continue as if unimplemented"
      [] e = "ErrBadConn" -> "driver: bad connection"
      [] e = "ErrDuplicate" -> "Error 1062: Duplicate entry"
      [] OTHER -> ""

(***************************************************************************)
(* State.                                                                  *)
(*   hooks     the registered QHooks                                       *)
(*   pc        position of each statement execution                        *)
(*   query     its statement text                                          *)
(*   ctx       the context it carries (a value per key, Nil when absent)   *)
(*   hook      the terminal hook the driver wrapper invoked for it         *)
(*   err       the error handed to OnError                                 *)
(*   ret       the error the terminal hook returned                        *)
(*   local     the terminal hook's local variables query and sqlType       *)
(*   spans     the span of each execution                                  *)
(*   total, success, errors, latency                                       *)
(*             defaultQMonitor: per (query, type) label pair the counter   *)
(*             value, and for latency the number of observations           *)
(*   norm      a text function applied to a text, once or twice            *)
(*   pool      the sql.DBStats counters of the database behind the getter  *)
(*   collector the position of godbStatsCollector.Collect and its local s  *)
(*   ch        the samples Collect has sent in the current cycle           *)
(*   gathered  the samples of the cycle before, as the registry got them   *)
(*   reg       a call of RegisterDriver: its position, its arguments, what *)
(*             sql.Open and prometheus.Register answered, its results      *)
(***************************************************************************)
VARIABLES hooks, pc, query, ctx, hook, err, ret, local, spans,
          total, success, errors, latency, norm,
          pool, collector, ch, gathered, reg

vars == <<hooks, pc, query, ctx, hook, err, ret, local, spans,
          total, success, errors, latency, norm,
          pool, collector, ch, gathered, reg>>

poolVars == <<pool, collector, ch, gathered>>

execVars == <<pc, query, ctx, hook, err, ret, local, spans>>

monitorVars == <<total, success, errors, latency>>

Procs == 1..NumProcs

(***************************************************************************)
(* Inputs.                                                                 *)
(***************************************************************************)
RWConfig == MysqlConfig("h1", "d1", "u1")

\* every read-only configuration: each field empty or set
ROConfigs ==
    {MysqlConfig(a, d, u) : a \in {"", "h2"}, d \in {"", "d2"}, u \in {"", "u2"}}

DefaultHooks == QHooks(RWConfig, MysqlConfig("", "d2", ""))

\* statements executed concurrently
Queries ==
    {"SELECT * FROM t WHERE id IN (?,?,?)", "INSERT INTO t VALUES (1,2),(3,4)"}

\* what the caller's context holds under the key sqlType
IncomingSqlTypes == {Nil, SqlSlave}

\* errors the driver wrapper hands to OnError
Errors == {Nil, ErrSkip, "ErrBadConn", "ErrDuplicate"}

EmptyCtx == [k \in CtxKeys |-> Nil]

\* the text functions tabulated over the statements executed
TextFunction(f, text) ==
    CASE f = "BeforeSwitch" -> BeforeSwitch(text)
      [] f = "AfterQuery" -> AfterQuery(text)
      [] f = "OnErrorQuery" -> OnErrorQuery(text)
      [] f = "SanitizeQuery" -> SanitizeQuery(text)

RECURSIVE Tabulate(_, _)
Tabulate(f, S) ==
    IF S = {} THEN <<>>
    ELSE LET x == CHOOSE y \in S : TRUE
         IN  (x :> TextFunction(f, x)) @@ Tabulate(f, S \ {x})

BeforeSwitchOf == Tabulate("BeforeSwitch", Queries)

AfterQueryOf == Tabulate("AfterQuery", Queries)

OnErrorQueryOf == Tabulate("OnErrorQuery", Queries)

SanitizeQueryOf ==
    Tabulate("SanitizeQuery", {AfterQueryOf[q] : q \in Queries} \cup
                              {OnErrorQueryOf[q] : q \in Queries})

\* time.Now()
Now == "time"

(***************************************************************************)
(* QMonitor: prometheus counter vectors. WithLabelValues creates the child *)
(* on first use; Inc and Observe are atomic.                               *)
(***************************************************************************)
NoSamples == [k \in {} |-> 0]

\* an increment that only creates the child
IncCreateOnly(vec, k) == IF k \in DOMAIN vec THEN vec ELSE vec @@ (k :> 1)

Inc(vec, k) ==
    IF k \in DOMAIN vec THEN [vec EXCEPT ![k] = @ + 1] ELSE vec @@ (k :> 1)

LabelValues(name, sqlType) == <<SanitizeQueryOf[name], sqlType>>

StoreTotal(name, sqlType) == total' = Inc(total, LabelValues(name, sqlType))

\* a StoreSuccesful that never reaches the counter
StoreSuccesfulDropped(name, sqlType) == success' = success

StoreSuccesful(name, sqlType) ==
    success' = Inc(success, LabelValues(name, sqlType))

StoreErroneous(name, sqlType) ==
    errors' = Inc(errors, LabelValues(name, sqlType))

StoreLatency(name, sqlType) ==
    latency' = Inc(latency, LabelValues(name, sqlType))

RECURSIVE SumOver(_, _)
SumOver(vec, keys) ==
    IF keys = {} THEN 0
    ELSE LET k == CHOOSE x \in keys : TRUE
         IN  vec[k] + SumOver(vec, keys \ {k})

\* a counter summed over all label pairs
Sum(vec) == SumOver(vec, DOMAIN vec)

(***************************************************************************)
(* godbStatsCollector (monitor.go): the pool statistics of a database.     *)
(***************************************************************************)
\* the fields of sql.DBStats the collector evaluates
StatsFields ==
    {"MaxOpenConnections", "OpenConnections", "InUse", "Idle", "WaitCount",
     "WaitDuration", "MaxIdleClosed", "MaxIdleTimeClosed", "MaxLifetimeClosed"}

\* sql.DBStats of a database that has not been used; WaitDuration is a
\* time.Duration, counted in milliseconds
NoStats == [f \in StatsFields |-> 0]

\* time.Duration.Seconds(), in whole seconds
Seconds(d) == d \div 1000

\* godbStatsMetrics as NewGoDBStatsCollector fills it: the name after
\* godbprefix, the field eval reads, the value type
godbStatsMetrics ==
    <<[desc |-> "max_open_conns", field |-> "MaxOpenConnections",
       vtyp |-> "GaugeValue"],
      [desc |-> "open_conns", field |-> "OpenConnections",
       vtyp |-> "GaugeValue"],
      [desc |-> "in_use_conns", field |-> "InUse", vtyp |-> "GaugeValue"],
      [desc |-> "idle_conns", field |-> "Idle", vtyp |-> "GaugeValue"],
      [desc |-> "waited_for_total", field |-> "WaitCount",
       vtyp |-> "CounterValue"],
      [desc |-> "blocked_seconds", field |-> "WaitDuration",
       vtyp |-> "CounterValue"],
      [desc |-> "closed_max_idle_total", field |-> "MaxIdleClosed",
       vtyp |-> "CounterValue"],
      [desc |-> "closed_max_idle_time_total", field |-> "MaxIdleTimeClosed",
       vtyp |-> "CounterValue"],
      [desc |-> "closed_max_lifetime_total", field |-> "MaxLifetimeClosed",
       vtyp |-> "CounterValue"]>>

\* m.eval(&s)
Eval(m, s) ==
    IF m.field = "WaitDuration" THEN Seconds(s[m.field]) ELSE s[m.field]

\* an evaluation that asks the pool again for every metric
ConstMetricLive(m, s, live) ==
    [desc |-> m.desc, vtyp |-> m.vtyp, value |-> Eval(m, live)]

\* prometheus.MustNewConstMetric(m.desc, m.vtyp, m.eval(&s)); live is what
\* the pool holds at the time of the call
ConstMetric(m, s, live) ==
    [desc |-> m.desc, vtyp |-> m.vtyp, value |-> Eval(m, s)]

InitPool ==
    /\ pool = NoStats
    /\ collector = [pc |-> "idle", s |-> NoStats, i |-> 0, reads |-> 0]
    /\ ch = <<>>
    /\ gathered = <<>>

(***************************************************************************)
(* RegisterDriver (lines 489-518): its named results dbRW, dbRO and err.   *)
(***************************************************************************)
\* no call of RegisterDriver so far; open and stats hold what sql.Open and
\* prometheus.Register answered for each side: "none", "ok" or the error
NoRegister ==
    [pc |-> "idle", rw |-> NilConfig, ro |-> NilConfig,
     rwOpen |-> "none", rwStats |-> "none",
     roOpen |-> "none", roStats |-> "none",
     dbRW |-> Nil, dbRO |-> Nil, err |-> Nil, returned |-> Nil]

InitRegister == reg = NoRegister

(***************************************************************************)
(* Init: the driver is registered, nothing has been executed.              *)
(***************************************************************************)
NoSwitch == [spanName |-> "", isSelectQuery |-> FALSE, cleanQuery |-> ""]

NoNorm == [text |-> "", rule |-> "", passes |-> 0, out |-> "", prev |-> "",
           sw |-> NoSwitch, span |-> NoSpan,
           paired |-> FALSE, twin |-> "", twinOut |-> ""]

InitExec ==
    /\ pc = [p \in Procs |-> "idle"]
    /\ query = [p \in Procs |-> ""]
    /\ ctx = [p \in Procs |-> EmptyCtx]
    /\ hook = [p \in Procs |-> "none"]
    /\ err = [p \in Procs |-> Nil]
    /\ ret = [p \in Procs |-> Nil]
    /\ local = [p \in Procs |-> [query |-> "", sqlType |-> ""]]
    /\ spans = [p \in Procs |-> NoSpan]

InitMonitor ==
    /\ total = NoSamples
    /\ success = NoSamples
    /\ errors = NoSamples
    /\ latency = NoSamples

Init ==
    /\ hooks \in {QHooks(RWConfig, ro) : ro \in ROConfigs \cup {NilConfig}}
    /\ InitExec
    /\ InitMonitor
    /\ norm = NoNorm
    /\ InitPool
    /\ InitRegister

(***************************************************************************)
(* Before (lines 300-329). The caller's context may carry a statement      *)
(* class under the key sqlType.                                            *)
(***************************************************************************)
Before(p) ==
    /\ pc[p] = "idle"
    /\ \E q \in Queries, t \in IncomingSqlTypes :
         LET incoming == [EmptyCtx EXCEPT ![KeySqlType] = t]
             sw == BeforeSwitchOf[q]
         IN  /\ query' = [query EXCEPT ![p] = q]
             /\ IF RoutingPanics(hooks, sw.isSelectQuery)
                THEN \* the span is started, SetAttributes is never reached
                     /\ spans' = [spans EXCEPT ![p] = StartSpan(sw.spanName)]
                     /\ ctx' = [ctx EXCEPT ![p] = incoming]
                     /\ pc' = [pc EXCEPT ![p] = "panicked"]
                ELSE /\ spans' = [spans EXCEPT ![p] = BeforeSpan(hooks, sw)]
                     /\ ctx' = [ctx EXCEPT ![p] =
                                  [incoming EXCEPT ![Begin] = Now,
                                                   ![QuerySpan] = "span"]]
                     /\ pc' = [pc EXCEPT ![p] = "started"]
    /\ UNCHANGED <<hooks, hook, err, ret, local, monitorVars, norm, poolVars, reg>>

(***************************************************************************)
(* After (lines 331-354), in the steps other executions can interleave     *)
(* with: up to StoreTotal, StoreSuccesful, StoreLatency and return.        *)
(***************************************************************************)
After(p) ==
    /\ pc[p] = "started"
    /\ hook' = [hook EXCEPT ![p] = "After"]
    /\ LET q == AfterQueryOf[query[p]]
           t == AfterSqlType(ctx[p])
       IN  /\ local' = [local EXCEPT ![p] = [query |-> q, sqlType |-> t]]
           /\ IF BeginAssertPanics(ctx[p])
              THEN \* ctx.Value(Begin).(time.Time) panics
                   /\ pc' = [pc EXCEPT ![p] = "panicked"]
                   /\ UNCHANGED <<spans, total>>
              ELSE /\ spans' = [spans EXCEPT ![p] =
                          IF ctx[p][QuerySpan] # Nil
                          THEN EndSpan([@ EXCEPT !.queryTime = TRUE])
                          ELSE @]
                   /\ StoreTotal(q, t)
                   /\ pc' = [pc EXCEPT ![p] = "After:351"]
    /\ UNCHANGED <<hooks, query, ctx, err, ret, success, errors, latency, norm,
                   poolVars, reg>>

AfterStoreSuccesful(p) ==
    /\ pc[p] = "After:351"
    /\ StoreSuccesful(local[p].query, local[p].sqlType)
    /\ pc' = [pc EXCEPT ![p] = "After:352"]
    /\ UNCHANGED <<hooks, query, ctx, hook, err, ret, local, spans,
                   total, errors, latency, norm,
                   poolVars, reg>>

AfterStoreLatency(p) ==
    /\ pc[p] = "After:352"
    /\ StoreLatency(local[p].query, local[p].sqlType)
    /\ ret' = [ret EXCEPT ![p] = Nil]
    /\ pc' = [pc EXCEPT ![p] = "done"]
    /\ UNCHANGED <<hooks, query, ctx, hook, err, local, spans,
                   total, success, errors, norm,
                   poolVars, reg>>

(***************************************************************************)
(* OnError (lines 356-382): up to StoreTotal, StoreErroneous, then         *)
(* StoreLatency, the span and return.                                      *)
(***************************************************************************)
OnError(p) ==
    /\ pc[p] = "started"
    /\ \E e \in Errors :
         /\ hook' = [hook EXCEPT ![p] = "OnError"]
         /\ err' = [err EXCEPT ![p] = e]
         /\ IF IsSkip(e)
            THEN /\ ret' = [ret EXCEPT ![p] = Nil]
                 /\ pc' = [pc EXCEPT ![p] = "done"]
                 /\ UNCHANGED <<local, total>>
            ELSE LET q == OnErrorQueryOf[query[p]]
                     t == OnErrorSqlType(ctx[p])
                 IN  /\ local' = [local EXCEPT ![p] =
                                    [query |-> q, sqlType |-> t]]
                     /\ StoreTotal(q, t)
                     /\ pc' = [pc EXCEPT ![p] = "OnError:368"]
                     /\ UNCHANGED ret
    /\ UNCHANGED <<hooks, query, ctx, spans, success, errors, latency, norm,
                   poolVars, reg>>

OnErrorStoreErroneous(p) ==
    /\ pc[p] = "OnError:368"
    /\ StoreErroneous(local[p].query, local[p].sqlType)
    /\ pc' = [pc EXCEPT ![p] = "OnError:369"]
    /\ UNCHANGED <<hooks, query, ctx, hook, err, ret, local, spans,
                   total, success, latency, norm,
                   poolVars, reg>>

OnErrorStoreLatency(p) ==
    /\ pc[p] = "OnError:369"
    /\ IF BeginAssertPanics(ctx[p])
       THEN \* ctx.Value(Begin).(time.Time) panics
            /\ pc' = [pc EXCEPT ![p] = "panicked"]
            /\ UNCHANGED <<latency, spans, ret>>
       ELSE /\ StoreLatency(local[p].query, local[p].sqlType)
            /\ spans' = [spans EXCEPT ![p] =
                   IF ctx[p][QuerySpan] # Nil
                   THEN EndSpan([@ EXCEPT !.error = TRUE,
                                          !.errorText = ErrorText(err[p])])
                   ELSE @]
            /\ ret' = [ret EXCEPT ![p] = OnErrorReturn(err[p])]
            /\ pc' = [pc EXCEPT ![p] = "done"]
    /\ UNCHANGED <<hooks, query, ctx, hook, err, local,
                   total, success, errors, norm,
                   poolVars, reg>>

Next ==
    \E p \in Procs :
        \/ Before(p)
        \/ After(p)
        \/ AfterStoreSuccesful(p)
        \/ AfterStoreLatency(p)
        \/ OnError(p)
        \/ OnErrorStoreErroneous(p)
        \/ OnErrorStoreLatency(p)

Spec == Init /\ [][Next]_vars

(***************************************************************************)
(* The terminal hooks called on their own: After and OnError are exported  *)
(* methods, a caller may hand them any context, with or without the start  *)
(* timestamp and the span.                                                 *)
(***************************************************************************)
HookContexts ==
    {[EmptyCtx EXCEPT ![Begin] = b, ![QuerySpan] = s] :
        b \in {Nil, Now}, s \in {Nil, "span"}}

InitHooks ==
    /\ hooks = DefaultHooks
    /\ pc = [p \in Procs |-> "started"]
    /\ query \in [Procs -> Queries]
    /\ ctx \in [Procs -> HookContexts]
    /\ hook = [p \in Procs |-> "none"]
    /\ err = [p \in Procs |-> Nil]
    /\ ret = [p \in Procs |-> Nil]
    /\ local = [p \in Procs |-> [query |-> "", sqlType |-> ""]]
    /\ spans = [p \in Procs |->
                  IF ctx[p][QuerySpan] # Nil
                  THEN BeforeSpan(hooks, BeforeSwitchOf[query[p]])
                  ELSE NoSpan]
    /\ InitMonitor
    /\ norm = NoNorm
    /\ InitPool
    /\ InitRegister

NextHooks ==
    \E p \in Procs :
        \/ After(p)
        \/ AfterStoreSuccesful(p)
        \/ AfterStoreLatency(p)
        \/ OnError(p)
        \/ OnErrorStoreErroneous(p)
        \/ OnErrorStoreLatency(p)

SpecHooks == InitHooks /\ [][NextHooks]_vars

(***************************************************************************)
(* Collect (monitor.go:125-131) while the database is in use: the registry *)
(* starts a cycle, Collect takes one copy of the statistics and sends one  *)
(* sample per metric; the pool changes at any time in between.             *)
(***************************************************************************)
\* the pool changes so far, WaitDuration counted in seconds
PoolChanges ==
    LET seconds == [pool EXCEPT !["WaitDuration"] = Seconds(@)]
    IN  SumOver(seconds, StatsFields)

\* database/sql moves one of the counters
PoolChange ==
    /\ PoolChanges < MaxPoolChanges
    /\ \E f \in StatsFields :
          pool' = [pool EXCEPT ![f] =
                      IF f = "WaitDuration" THEN @ + 1000 ELSE @ + 1]
    /\ UNCHANGED <<hooks, execVars, monitorVars, norm, reg, collector, ch,
                   gathered>>

\* s := c.g.Stats(), at the start of a cycle
CollectStats ==
    /\ collector.pc = "idle"
    /\ collector' = [pc |-> "emit", s |-> pool, i |-> 1, reads |-> 1]
    /\ gathered' = ch
    /\ ch' = <<>>
    /\ UNCHANGED <<hooks, execVars, monitorVars, norm, reg, pool>>

\* one iteration of the loop over c.m
CollectEmit ==
    /\ collector.pc = "emit"
    /\ ch' = Append(ch, ConstMetric(godbStatsMetrics[collector.i],
                                    collector.s, pool))
    /\ collector' =
           IF collector.i = Len(godbStatsMetrics)
           THEN [collector EXCEPT !.pc = "idle", !.i = 0]
           ELSE [collector EXCEPT !.i = @ + 1]
    /\ UNCHANGED <<hooks, execVars, monitorVars, norm, reg, pool, gathered>>

NextPool ==
    \/ PoolChange
    \/ CollectStats
    \/ CollectEmit

InitCollect ==
    /\ hooks = DefaultHooks
    /\ InitExec
    /\ InitMonitor
    /\ norm = NoNorm
    /\ InitPool
    /\ InitRegister

SpecPool == InitCollect /\ [][NextPool]_vars

(***************************************************************************)
(* RegisterDriver, one step per call it makes. sql.Open and                *)
(* prometheus.Register answer with nil or with an error.                   *)
(***************************************************************************)
\* what sql.Open answers for a side
OpenAnswers(side) == {"ok", "sql.Open " \o side \o " failed"}

\* what prometheus.Register answers for a side
RegisterAnswers(side) == {"ok", "prometheus.Register " \o side \o " failed"}

\* the error value of an answer
ErrorOf(answer) == IF answer = "ok" THEN Nil ELSE answer

\* err = ... : the named result is overwritten
ErrAssign(old, new) == new

RegFrame == UNCHANGED <<execVars, monitorVars, norm, poolVars>>

\* lines 489-491: the hooks are built and the driver is registered
RegisterDriver ==
    /\ reg.pc = "idle"
    /\ \E rw \in {NilConfig, RWConfig}, ro \in ROConfigs \cup {NilConfig} :
          /\ hooks' = QHooks(rw, ro)
          /\ reg' = [NoRegister EXCEPT !.pc = "rw", !.rw = rw, !.ro = ro]
    /\ RegFrame

\* lines 493-495: dbRW, err = sql.Open(...), skipped when rw is nil
OpenRW ==
    /\ reg.pc = "rw"
    /\ IF reg.rw.isNil
       THEN reg' = [reg EXCEPT !.pc = "ro"]
       ELSE \E a \in OpenAnswers("rw") :
              reg' = [reg EXCEPT
                         !.rwOpen = a,
                         !.dbRW = IF a = "ok" THEN "dbRW" ELSE Nil,
                         !.err = ErrAssign(@, ErrorOf(a)),
                         !.pc = IF a = "ok" THEN "rwStats" ELSE "ro"]
    /\ UNCHANGED hooks
    /\ RegFrame

\* lines 496-502: the pool is configured and its collector registered
RegisterStatsRW ==
    /\ reg.pc = "rwStats"
    /\ \E a \in RegisterAnswers("rw") :
          reg' = [reg EXCEPT !.rwStats = a,
                             !.err = ErrAssign(@, ErrorOf(a)),
                             !.pc = "ro"]
    /\ UNCHANGED hooks
    /\ RegFrame

\* lines 505-507: dbRO, err = sql.Open(...), skipped when ro is nil
OpenRO ==
    /\ reg.pc = "ro"
    /\ IF reg.ro.isNil
       THEN reg' = [reg EXCEPT !.pc = "return"]
       ELSE \E a \in OpenAnswers("ro") :
              reg' = [reg EXCEPT
                         !.roOpen = a,
                         !.dbRO = IF a = "ok" THEN "dbRO" ELSE Nil,
                         !.err = ErrAssign(@, ErrorOf(a)),
                         !.pc = IF a = "ok" THEN "roStats" ELSE "return"]
    /\ UNCHANGED hooks
    /\ RegFrame

\* lines 508-514
RegisterStatsRO ==
    /\ reg.pc = "roStats"
    /\ \E a \in RegisterAnswers("ro") :
          reg' = [reg EXCEPT !.roStats = a,
                             !.err = ErrAssign(@, ErrorOf(a)),
                             !.pc = "return"]
    /\ UNCHANGED hooks
    /\ RegFrame

\* line 517: return dbRW, dbRO, err
RegisterReturn ==
    /\ reg.pc = "return"
    /\ reg' = [reg EXCEPT !.returned = reg.err, !.pc = "done"]
    /\ UNCHANGED hooks
    /\ RegFrame

NextRegister ==
    \/ RegisterDriver
    \/ OpenRW
    \/ RegisterStatsRW
    \/ OpenRO
    \/ RegisterStatsRO
    \/ RegisterReturn

InitRegisterDriver ==
    /\ hooks = QHooks(NilConfig, NilConfig)
    /\ InitExec
    /\ InitMonitor
    /\ norm = NoNorm
    /\ InitPool
    /\ InitRegister

SpecRegister == InitRegisterDriver /\ [][NextRegister]_vars

(***************************************************************************)
(* The text functions on their own: a text is drawn from a bounded set,    *)
(* one function is applied to it, and then once more to its own output.    *)
(***************************************************************************)
TailChars == {",", "?", "1", "\n"}

RECURSIVE TailsOfLen(_)
TailsOfLen(n) ==
    IF n = 0 THEN {""}
    ELSE {c \o t : c \in TailChars, t \in TailsOfLen(n - 1)}

Tails == UNION {TailsOfLen(n) : n \in 0..MaxTail}

Heads ==
    {"", "select", "SeLeCt", "selec", " select", "UPDATE", "delete",
     "Create", "insert", "INSERT INTO t VALUES (", "insert into t values (",
     "REPLACE INTO t VALUES ("}

RECURSIVE Repeat(_, _)
Repeat(s, n) == IF n = 0 THEN "" ELSE s \o Repeat(s, n - 1)

PlaceholderList(n) ==
    "SELECT * FROM t WHERE id IN (?" \o Repeat(",?", n - 1) \o ")"

BulkInsert(n) == "INSERT INTO t VALUES (1,2)" \o Repeat(",(3,4)", n - 1)

Texts ==
    {h \o t : h \in Heads, t \in Tails}
        \cup {PlaceholderList(n) : n \in 1..MaxPlaceholders}
        \cup {BulkInsert(n) : n \in 1..MaxTuples}

\* a statement around a placeholder run or a numeric ID list
StatementFrames ==
    {<<"SELECT * FROM t WHERE id IN (", ")">>,
     <<"INSERT INTO t VALUES (", ")">>,
     <<"update t set a=? where id in (", ") and b=?">>,
     <<"CALL p(", ")">>}

PlaceholderRuns == {"?" \o Repeat(",?", n - 1) : n \in 1..MaxPlaceholders}

Ids == {"1", "42"}

RECURSIVE IdListsOfLen(_)
IdListsOfLen(n) ==
    IF n = 1 THEN Ids
    ELSE {i \o "," \o l : i \in Ids, l \in IdListsOfLen(n - 1)}

IdLists == UNION {IdListsOfLen(n) : n \in 1..MaxIds}

\* two statements that differ only in the run they hold
TwinsOver(runs) ==
    {<<f[1] \o t[1] \o f[2], f[1] \o t[2] \o f[2]>> :
        f \in StatementFrames,
        t \in {r \in runs \X runs : r[1] # r[2]}}

Twins == TwinsOver(PlaceholderRuns) \cup TwinsOver(IdLists)

InitText ==
    /\ hooks = DefaultHooks
    /\ InitExec
    /\ InitMonitor
    /\ InitPool
    /\ InitRegister
    /\ \/ \E t \in Texts : norm = [NoNorm EXCEPT !.text = t]
       \/ \E t \in Twins :
              norm = [NoNorm EXCEPT !.text = t[1], !.paired = TRUE,
                                    !.twin = t[2]]

\* the text the next application works on
NormInput == IF norm.passes = 0 THEN norm.text ELSE norm.out

NormEnabled(rule) ==
    /\ norm.passes < 2
    /\ norm.passes = 0 \/ norm.rule = rule

Applied(rule, out) ==
    [norm EXCEPT !.rule = rule, !.passes = @ + 1, !.prev = norm.out,
                 !.out = out]

ApplyQueryCleanup ==
    /\ NormEnabled("queryCleanup")
    /\ norm' = Applied("queryCleanup", queryCleanup(NormInput))
    /\ UNCHANGED <<hooks, execVars, monitorVars, poolVars, reg>>

ApplyInsertQueryCleanup ==
    /\ NormEnabled("insertQueryCleanup")
    /\ norm' = Applied("insertQueryCleanup",
                       insertQueryCleanup(NormInput))
    /\ UNCHANGED <<hooks, execVars, monitorVars, poolVars, reg>>

ApplySanitizeQuery ==
    /\ NormEnabled("SanitizeQuery")
    /\ norm' = Applied("SanitizeQuery",
                       SanitizeQuery(NormInput))
    /\ UNCHANGED <<hooks, execVars, monitorVars, poolVars, reg>>

\* the classification and span query attribute of Before
ApplyBefore ==
    /\ NormEnabled("Before")
    /\ LET sw == BeforeSwitch(NormInput)
       IN  norm' = [Applied("Before", sw.cleanQuery) EXCEPT
                       !.sw = sw, !.span = BeforeSpan(hooks, sw)]
    /\ UNCHANGED <<hooks, execVars, monitorVars, poolVars, reg>>

\* the query After hands to the monitor
ApplyAfter ==
    /\ NormEnabled("After")
    /\ norm' = Applied("After", AfterQuery(NormInput))
    /\ UNCHANGED <<hooks, execVars, monitorVars, poolVars, reg>>

\* the text of the twin the next application works on
TwinInput == IF norm.passes = 0 THEN norm.twin ELSE norm.twinOut

\* the query label of After (lines 332-341, 350, 460)
ApplyAfterLabel ==
    /\ NormEnabled("AfterLabel")
    /\ norm' = [Applied("AfterLabel", AfterLabel(NormInput)) EXCEPT
                    !.twinOut = AfterLabel(TwinInput)]
    /\ UNCHANGED <<hooks, execVars, monitorVars, poolVars, reg>>

\* the query label of OnError with a genuine error (lines 357, 367, 460)
ApplyOnErrorLabel ==
    /\ NormEnabled("OnErrorLabel")
    /\ norm' = [Applied("OnErrorLabel", OnErrorLabel(NormInput)) EXCEPT
                    !.twinOut = OnErrorLabel(TwinInput)]
    /\ UNCHANGED <<hooks, execVars, monitorVars, poolVars, reg>>

NextText ==
    \/ ApplyQueryCleanup
    \/ ApplyInsertQueryCleanup
    \/ ApplySanitizeQuery
    \/ ApplyBefore
    \/ ApplyAfter
    \/ ApplyAfterLabel
    \/ ApplyOnErrorLabel

SpecText == InitText /\ [][NextText]_vars

(***************************************************************************)
(* Properties of the hooks, checked under Spec.                            *)
(***************************************************************************)
Genuine(e) == e # Nil /\ e # ErrSkip

Returned(p) == pc[p] = "done"

\* the terminal hook of p returned and it was After or OnError with a
\* genuine error
Accounted(p) ==
    /\ Returned(p)
    /\ hook[p] = "After" \/ (hook[p] = "OnError" /\ Genuine(err[p]))

\* the terminal hook of p was OnError with the skip sentinel or nil
Skipped(p) == Returned(p) /\ hook[p] = "OnError" /\ ~Genuine(err[p])

\* no hook is between its first and last step
Quiescent == \A p \in Procs : pc[p] \in {"idle", "started", "done", "panicked"}

Alone(p) == \A q \in Procs \ {p} : pc[q] = "idle"

\* C1 as stated: in every state where no hook is running, total has grown by
\* one for every execution whose terminal hook (After or OnError, whatever
\* the error) has returned, and success and error together by one
C1_EveryTerminalHookAccounts ==
    Quiescent =>
        /\ Sum(total) = Cardinality({p \in Procs : Returned(p)})
        /\ Sum(success) + Sum(errors) = Cardinality({p \in Procs : Returned(p)})

\* C1 amended: in every state where no hook is running, total counts the
\* executions ended by After or by OnError with a genuine error, success
\* counts those ended by After and error those ended by OnError with a
\* genuine error; an execution ended by OnError with the skip sentinel or
\* nil is counted nowhere
C1_ExactlyOnceAccounting ==
    Quiescent =>
        /\ Sum(total) = Cardinality({p \in Procs : Accounted(p)})
        /\ Sum(success) =
               Cardinality({p \in Procs : Accounted(p) /\ hook[p] = "After"})
        /\ Sum(errors) =
               Cardinality({p \in Procs : Accounted(p) /\ hook[p] = "OnError"})
        /\ \A p \in Procs :
               Accounted(p) /\ Alone(p) =>
                   /\ Sum(total) = 1
                   /\ <<Sum(success), Sum(errors)>> \in {<<1, 0>>, <<0, 1>>}

C1_Witness ==
    /\ Quiescent
    /\ \E p \in Procs : Accounted(p) /\ hook[p] = "After"
    /\ \E p \in Procs : Accounted(p) /\ hook[p] = "OnError"

\* the executions whose StoreTotal has run
PastStoreTotal(p) ==
    pc[p] \in {"After:351", "After:352", "OnError:368", "OnError:369"}
        \/ Accounted(p)

\* C2: in every interleaving total summed over all labels equals the number
\* of executions whose StoreTotal has run, so once N accounted executions
\* have finished it has grown by exactly N
C2_NoLostIncrement ==
    /\ Sum(total) = Cardinality({p \in Procs : PastStoreTotal(p)})
    /\ (\A p \in Procs : Accounted(p)) => Sum(total) = NumProcs

\* all executions accounted under one and the same label pair
C2_Witness ==
    /\ \A p \in Procs : Accounted(p)
    /\ \E k \in DOMAIN total : total[k] = NumProcs

\* C3: the step in which OnError receives the skip sentinel or nil is its
\* only step: it returns nil and changes no counter, no latency
\* observation and no span
C3_SkipDoesNothing ==
    [][\A p \in Procs :
          (pc[p] = "started" /\ hook'[p] = "OnError" /\ ~Genuine(err'[p])) =>
              /\ pc'[p] = "done"
              /\ ret'[p] = Nil
              /\ UNCHANGED <<total, success, errors, latency, spans>>]_vars

C3_Witness ==
    \E p \in Procs : Skipped(p) /\ err[p] = ErrSkip /\ spans[p].ended = 0

\* C4 as stated: once the terminal hook has returned, whatever the error,
\* the span of the execution has been ended exactly once
C4_SpanEndedOnce ==
    \A p \in Procs : Returned(p) => spans[p].started /\ spans[p].ended = 1

\* C5: OnError with a genuine error returns that error, having flagged and
\* ended the span and counted the execution in total, error and latency
C5_GenuineErrorPropagated ==
    \A p \in Procs :
        (Returned(p) /\ hook[p] = "OnError" /\ Genuine(err[p])) =>
            /\ ret[p] = err[p]
            /\ ret[p] # Nil
            /\ spans[p].error
            /\ spans[p].errorText = ErrorText(err[p])
            /\ spans[p].ended = 1
            /\ Sum(total) >= 1 /\ Sum(errors) >= 1 /\ Sum(latency) >= 1
            /\ Alone(p) =>
                   /\ Sum(total) = 1 /\ Sum(errors) = 1 /\ Sum(latency) = 1
                   /\ Sum(success) = 0

C5_Witness ==
    \E p \in Procs :
        /\ Returned(p) /\ hook[p] = "OnError" /\ err[p] = "ErrDuplicate"
        /\ ret[p] = "ErrDuplicate"

\* read-eligible: the text begins with select in any letter case
ReadEligible(text) ==
    Len(text) >= 6 /\ ToLower(SubSeq(text, 1, 6)) = "select"

Resolved(eligible, primary, secondary) ==
    IF eligible /\ secondary # "" THEN secondary ELSE primary

BeforeCalled(p) == pc[p] # "idle" /\ hook[p] = "none"

\* C14 as stated: for every statement and every endpoint configuration,
\* also one without a read-only endpoint, Before returns, and the context it
\* returns carries the start timestamp and the span
C14_BeforeNeverFails ==
    \A p \in Procs :
        BeforeCalled(p) =>
            /\ pc[p] = "started"
            /\ ctx[p][Begin] # Nil
            /\ ctx[p][QuerySpan] # Nil

\* the statement class the caller propagated in the context of p under the
\* key sqlType, master when there is none
PropagatedClass(p) ==
    IF ctx[p]["string:sqlType"] # Nil THEN ctx[p]["string:sqlType"]
    ELSE "master"

\* the label pairs of a counter that carry the type t
WithType(vec, t) == {k \in DOMAIN vec : k[2] = t}

\* C16: After counts under the class propagated under the key sqlType, and
\* under master when none is propagated: total, then success, then latency
\* get a sample with that type, and an execution on its own leaves no
\* sample of any other type
C16_AfterUsesPropagatedClass ==
    \A p \in Procs :
        (hook[p] = "After" /\ pc[p] \in {"After:351", "After:352", "done"}) =>
            /\ local[p].sqlType = PropagatedClass(p)
            /\ WithType(total, PropagatedClass(p)) # {}
            /\ pc[p] = "done" =>
                   /\ WithType(success, PropagatedClass(p)) # {}
                   /\ WithType(latency, PropagatedClass(p)) # {}
            /\ Alone(p) =>
                   DOMAIN total = WithType(total, PropagatedClass(p))

C16_Witness ==
    \E p, q \in Procs :
        /\ pc[p] = "done" /\ hook[p] = "After"
        /\ ctx[p]["string:sqlType"] = "slave"
        /\ WithType(success, "slave") # {}
        /\ pc[q] = "done" /\ hook[q] = "After"
        /\ ctx[q]["string:sqlType"] = Nil
        /\ WithType(success, "master") # {}

\* C17 as stated: OnError with a genuine error counts under the class
\* After would count under: the one propagated under the key sqlType, and
\* master when none is propagated
C17_OnErrorResolvesAsAfter ==
    \A p \in Procs :
        (hook[p] = "OnError" /\ Genuine(err[p])
            /\ pc[p] \in {"OnError:368", "OnError:369", "done"}) =>
                /\ local[p].sqlType = PropagatedClass(p)
                /\ WithType(total, PropagatedClass(p)) # {}

(***************************************************************************)
(* Properties of the terminal hooks called with any context, checked under *)
(* SpecHooks.                                                              *)
(***************************************************************************)
\* the terminal hook of p is After or OnError with a genuine error
TerminalInvoked(p) ==
    hook[p] = "After" \/ (hook[p] = "OnError" /\ Genuine(err[p]))

\* C12 as stated: a terminal hook never returns normally on a context that
\* lacks the start timestamp or lacks the span
C12_MissingItemsFail ==
    \A p \in Procs :
        (TerminalInvoked(p) /\ Returned(p)) =>
            ctx[p][Begin] # Nil /\ ctx[p][QuerySpan] # Nil

\* C12 amended: a terminal hook never returns normally on a context that
\* lacks the start timestamp, and it fails on no other context; on a
\* context that lacks only the span it returns normally and touches no span
C12_MissingBeginFails ==
    \A p \in Procs :
        /\ (TerminalInvoked(p) /\ Returned(p)) => ctx[p][Begin] # Nil
        /\ pc[p] = "panicked" => (TerminalInvoked(p) /\ ctx[p][Begin] = Nil)
        /\ (TerminalInvoked(p) /\ ctx[p][Begin] = Nil) =>
               pc[p] \in {"OnError:368", "OnError:369", "panicked"}
        /\ (Returned(p) /\ ctx[p][QuerySpan] = Nil) => spans[p] = NoSpan

C12_Witness ==
    \E p, q \in Procs :
        /\ pc[p] = "panicked" /\ hook[p] = "After" /\ ctx[p][Begin] = Nil
        /\ pc[q] = "done" /\ hook[q] = "After" /\ ctx[q][QuerySpan] = Nil
        /\ ctx[q][Begin] # Nil /\ spans[q] = NoSpan

\* the value of a counter for a label pair, 0 before its first sample
ValueOf(vec, k) == IF k \in DOMAIN vec THEN vec[k] ELSE 0

NeverDecreases(vec, next) ==
    \A k \in DOMAIN vec : k \in DOMAIN next /\ next[k] >= vec[k]

\* C19 as stated: whenever no terminal hook is between its first and last
\* step, for every label pair total = success + error = the number of
\* latency observations; and no step lowers total, success or error
C19_CountersConsistent ==
    /\ [](Quiescent =>
            \A k \in DOMAIN total \cup DOMAIN success \cup DOMAIN errors
                      \cup DOMAIN latency :
                /\ ValueOf(total, k) = ValueOf(success, k) + ValueOf(errors, k)
                /\ ValueOf(total, k) = ValueOf(latency, k))
    /\ [][/\ NeverDecreases(total, total')
          /\ NeverDecreases(success, success')
          /\ NeverDecreases(errors, errors')]_vars

\* C20 as stated: a terminal hook that failed on a context without the
\* start timestamp has counted nothing: the counters and the latency
\* observations are those of the other executions
C20_AllOrNothing ==
    (\E p \in Procs : pc[p] = "panicked") =>
        /\ Sum(total) = Cardinality({q \in Procs : PastStoreTotal(q)})
        /\ Sum(success) =
               Cardinality({q \in Procs :
                   pc[q] = "After:352" \/ (Accounted(q) /\ hook[q] = "After")})
        /\ Sum(errors) =
               Cardinality({q \in Procs :
                   pc[q] = "OnError:369"
                       \/ (Accounted(q) /\ hook[q] = "OnError")})
        /\ Sum(latency) = Cardinality({q \in Procs : Accounted(q)})

(***************************************************************************)
(* Properties of the pool statistics collector, checked under SpecPool.    *)
(***************************************************************************)
\* the nine samples of a cycle whose copy of the statistics is s
NineSamples(s) ==
    <<[desc |-> "max_open_conns", vtyp |-> "GaugeValue",
       value |-> s.MaxOpenConnections],
      [desc |-> "open_conns", vtyp |-> "GaugeValue",
       value |-> s.OpenConnections],
      [desc |-> "in_use_conns", vtyp |-> "GaugeValue", value |-> s.InUse],
      [desc |-> "idle_conns", vtyp |-> "GaugeValue", value |-> s.Idle],
      [desc |-> "waited_for_total", vtyp |-> "CounterValue",
       value |-> s.WaitCount],
      [desc |-> "blocked_seconds", vtyp |-> "CounterValue",
       value |-> s.WaitDuration \div 1000],
      [desc |-> "closed_max_idle_total", vtyp |-> "CounterValue",
       value |-> s.MaxIdleClosed],
      [desc |-> "closed_max_idle_time_total", vtyp |-> "CounterValue",
       value |-> s.MaxIdleTimeClosed],
      [desc |-> "closed_max_lifetime_total", vtyp |-> "CounterValue",
       value |-> s.MaxLifetimeClosed]>>

CycleDone == collector.pc = "idle" /\ collector.reads > 0

\* C13: every sample of a cycle is computed from the one copy of the
\* statistics the cycle took, a finished cycle has read the statistics once
\* and sent the nine samples (four gauges, five counters); the copy is
\* taken from the pool when the cycle starts, so it holds what the pool
\* holds then, and no step of Collect changes the pool
C13_CollectSnapshot ==
    /\ [](/\ \A i \in 1..Len(ch) : ch[i] = NineSamples(collector.s)[i]
          /\ CycleDone => (Len(ch) = 9 /\ collector.reads = 1))
    /\ [][/\ (collector' # collector \/ ch' # ch) => pool' = pool
          /\ (collector.pc = "idle" /\ collector'.pc = "emit") =>
                 (collector'.s = pool /\ ch' = <<>>)]_vars

\* two finished cycles with a pool change in between, and one more change
\* while the second was sending
C13_Witness ==
    /\ CycleDone
    /\ Len(gathered) = 9 /\ gathered[2].value = 0
    /\ Len(ch) = 9 /\ ch[2].value = 1
    /\ ch[3].value = 0 /\ pool.InUse = 1

(***************************************************************************)
(* Properties of the text functions, checked under SpecText.               *)
(***************************************************************************)
Once(rules) == norm.passes = 1 /\ norm.rule \in rules

Twice(rules) == norm.passes = 2 /\ norm.rule \in rules

\* C7 as stated: each of the placeholder-collapse rule, the insert VALUES
\* rule and the digit sanitizer, applied to its own output, leaves it
\* unchanged
C7_NormalizationIdempotent ==
    Twice({"queryCleanup", "insertQueryCleanup", "SanitizeQuery"}) =>
        norm.out = norm.prev

\* C8 as stated: the placeholder list of the example collapses to nothing
C8_CollapsesToEmptyList ==
    (Once({"queryCleanup", "Before", "After"})
        /\ norm.text = "SELECT * FROM t WHERE id IN (?,?,?)") =>
            norm.out = "SELECT * FROM t WHERE id IN ()"

\* C8 amended: the placeholder-collapse rule deletes every run of ",?"
\* pairs, so a placeholder list of any length keeps its first placeholder:
\* "SELECT * FROM t WHERE id IN (?,?,?)" is classified select and
\* normalized to "SELECT * FROM t WHERE id IN (?)"
C8_CollapseKeepsFirstPlaceholder ==
    /\ (Once({"queryCleanup", "Before", "After"})
           /\ \E n \in 1..MaxPlaceholders : norm.text = PlaceholderList(n)) =>
               norm.out = "SELECT * FROM t WHERE id IN (?)"
    /\ (Once({"Before"})
           /\ norm.text = "SELECT * FROM t WHERE id IN (?,?,?)") =>
               /\ norm.sw.spanName = "SQL: SELECT"
               /\ norm.sw.isSelectQuery
               /\ norm.span.query = "SELECT * FROM t WHERE id IN (?)"

C8_Witness ==
    /\ Once({"After"})
    /\ norm.text = "SELECT * FROM t WHERE id IN (?,?,?)"
    /\ norm.out = "SELECT * FROM t WHERE id IN (?)"

\* the index of the first "values (", in any letter case, from i on; 0 when
\* there is none
RECURSIVE ValuesClauseFrom(_, _)
ValuesClauseFrom(s, i) ==
    IF i + 7 > Len(s) THEN 0
    ELSE IF ToLower(SubSeq(s, i, i + 7)) = "values (" THEN i
         ELSE ValuesClauseFrom(s, i + 1)

IsInsert(text) == Len(text) >= 6 /\ ToLower(SubSeq(text, 1, 6)) = "insert"

\* C9 as stated: for every insert statement that contains a VALUES ( clause,
\* the normalized text of Before and of After is the text before the clause
\* followed by the constant "VALUES (? ?)"; the example with two tuples is
\* classified other and normalized to "INSERT INTO t VALUES (? ?)"
C9_InsertValuesCollapsed ==
    LET i == ValuesClauseFrom(norm.text, 1)
    IN  /\ (Once({"Before"}) /\ IsInsert(norm.text) /\ i > 0) =>
               /\ norm.out = SubSeq(norm.text, 1, i - 1) \o "VALUES (? ?)"
               /\ norm.sw.spanName = "SQL: OTHER"
        /\ (Once({"After"}) /\ IsInsert(norm.text) /\ i > 0) =>
               norm.out =
                   queryCleanup(SubSeq(norm.text, 1, i - 1)) \o "VALUES (? ?)"
        /\ (Once({"Before", "After"})
               /\ norm.text = "INSERT INTO t VALUES (1,2),(3,4)") =>
                   norm.out = "INSERT INTO t VALUES (? ?)"

\* the category the leading characters of a text name
Category(text) ==
    LET lead == IF Len(text) >= 6 THEN ToLower(SubSeq(text, 1, 6)) ELSE ""
    IN  IF lead \in {"select", "update", "delete", "create"}
        THEN lead ELSE "other"

SpanNameOf(category) ==
    CASE category = "select" -> "SQL: SELECT"
      [] category = "update" -> "SQL: UPDATE"
      [] category = "delete" -> "SQL: DELETE"
      [] category = "create" -> "SQL: CREATE"
      [] OTHER -> "SQL: OTHER"

\* C10: Before classifies every text by its six leading characters taken in
\* lower case: select, update, delete or create, and other for every other
\* text (insert, the empty text, leading whitespace); only select is
\* read-eligible, which shows in the database the span is attributed to
C10_ClassificationTotal ==
    Once({"Before"}) =>
        LET category == Category(norm.text)
        IN  /\ norm.sw.spanName = SpanNameOf(category)
            /\ norm.span.name = SpanNameOf(category)
            /\ norm.sw.isSelectQuery <=> category = "select"
            /\ norm.span.database = IF category = "select" THEN "d2" ELSE "d1"
            /\ norm.text \in {"", " select", "selec", "insert"} =>
                   norm.sw.spanName = "SQL: OTHER"

C10_Witness ==
    /\ Once({"Before"})
    /\ norm.text = "SeLeCt,?"
    /\ norm.sw.spanName = "SQL: SELECT"
    /\ norm.sw.isSelectQuery

RECURSIVE HasPlaceholderPairFrom(_, _)
HasPlaceholderPairFrom(s, i) ==
    IF i + 1 > Len(s) THEN FALSE
    ELSE IF Char(s, i) = "," /\ Char(s, i + 1) = "?" THEN TRUE
         ELSE HasPlaceholderPairFrom(s, i + 1)

\* C15 as stated: for every statement class the query attribute Before sets
\* on the span has its placeholder runs collapsed as After collapses them:
\* it holds a ",?" pair only where the collapse rule itself leaves one
C15_CollapseUnconditional ==
    Once({"Before"}) =>
        (HasPlaceholderPairFrom(norm.span.query, 1) =>
            HasPlaceholderPairFrom(queryCleanup(norm.text), 1))

\* C18 as stated: OnError counts a failed execution of a text under the
\* query label After counts a successful execution of it under; a failed
\* insert with several value tuples gets the label of a successful one
C18_OnErrorLabelAsAfter ==
    Once({"OnErrorLabel"}) =>
        /\ norm.out = AfterLabel(norm.text)
        /\ norm.text = "INSERT INTO t VALUES (1,2),(3,4)" =>
               norm.out = "INSERT INTO t VALUES (? ?)"

(***************************************************************************)
(* Properties of RegisterDriver, checked under SpecRegister.               *)
(***************************************************************************)
Failed(answer) == answer \notin {"none", "ok"}

\* C21 as stated: RegisterDriver returns a non-nil error whenever opening
\* or registering the collector of the read-write or of the read-only
\* database failed, also when the read-write side failed and the read-only
\* side then succeeded
C21_FailureReported ==
    reg.pc = "done" =>
        ((Failed(reg.rwOpen) \/ Failed(reg.rwStats)
             \/ Failed(reg.roOpen) \/ Failed(reg.roStats)) =>
                reg.returned # Nil)

====
